---- MODULE Spec2Model ----
\* Model of python/lammps/formats.py: the two line parsers LogFile and
\* AvgChunkFile.  A line is the sequence of its whitespace-separated tokens,
\* a token is a string; numbers are read from tokens by FloatOf, as float()
\* and int() read them.
EXTENDS Integers, Sequences, FiniteSets, TLC

\* ---------------------------------------------------------------- bounds
MaxLines == 5      \* lines of an arbitrary log
MaxBlocks == 3     \* run blocks of a log made of complete blocks
MaxRows == 2       \* data rows (or banners) of one block
MaxNum == 99       \* largest number a token spells
MaxBody == 4       \* lines of an arbitrary chunk file after its three header lines
MaxChunks == 2     \* chunks a timestep line declares
MaxSteps == 2      \* timestep blocks of a chunk file made of complete blocks
MaxCalls == 3      \* constructor calls, one after the other, on the same two files

\* ---------------------------------------------------------------- tokens
Digit == <<"0", "1", "2", "3", "4", "5", "6", "7", "8", "9">>

RECURSIVE Str(_)
Str(n) == IF n < 0 THEN "-" \o Str(-n)
          ELSE IF n < 10 THEN Digit[n + 1] ELSE Str(n \div 10) \o Digit[(n % 10) + 1]

\* the numbers the tokens spell: one negative number, and 0 to MaxNum
Numbers == {-1} \cup (0..MaxNum)

NumStr == [n \in Numbers |-> Str(n)]

NumTokens == {NumStr[n] : n \in Numbers}

\* the token spells a number: float(tok) and int(tok) do not raise ValueError
IsNum(tok) == tok \in NumTokens

\* float(tok) / int(tok) of a token that spells a number
FloatOf(tok) == CHOOSE n \in Numbers : NumStr[n] = tok

\* tokens made of dashes only
ShortDashes == {"-", "---"}
LongDashes == {"-----", "----------"}
Dashes == ShortDashes \cup LongDashes

\* tokens without any letter other than e and E
NoAlpha(tok) == IsNum(tok) \/ tok \in Dashes \cup {"=", "...", "e"}

\* tokens made only of the characters of [a-zA-Z_0-9]
IsWord(tok) ==
  (IsNum(tok) /\ FloatOf(tok) >= 0) \/ tok \in {"Step", "Temp", "Press", "CPU", "Loop", "time", "of", "e",
                         "ERROR", "Lost", "atoms"}

\* tokens that begin with a character of [0-9\.eE\-]; in this vocabulary the
\* pattern then matches the whole token
IsNumeric(tok) == IsNum(tok) \/ tok \in Dashes \cup {"e", "..."}

Range(s) == {s[i] : i \in 1..Len(s)}


\* ------------------------------------------------------------- Run dicts
\* A Python dict of lists: the keys in insertion order, col[i] the list of keys[i].
EmptyRun == [keys |-> <<>>, col |-> <<>>]

HasKey(r, k) == k \in Range(r.keys)

KeyIndex(r, k) == CHOOSE i \in 1..Len(r.keys) : r.keys[i] = k

Column(r, k) == r.col[KeyIndex(r, k)]

\* r[k] = []
SetEmpty(r, k) ==
  IF HasKey(r, k) THEN [r EXCEPT !.col[KeyIndex(r, k)] = <<>>]
  ELSE [keys |-> Append(r.keys, k), col |-> Append(r.col, <<>>)]

\* r[k].append(v), for a key r has
AppendTo(r, k, v) == [r EXCEPT !.col[KeyIndex(r, k)] = Append(@, v)]

\* for k in ks: r[k] = []
RECURSIVE SetAllEmpty(_, _)
SetAllEmpty(r, ks) ==
  IF ks = <<>> THEN r ELSE SetAllEmpty(SetEmpty(r, Head(ks)), Tail(ks))

Min(a, b) == IF a < b THEN a ELSE b

\* ============================================================== LogFile
STYLE_DEFAULT == 0
STYLE_MULTI == 1
STYLE_YAML == 2

VARIABLES
  f,                \* the lines of the log not read yet, when the log is drawn in advance
  plan,             \* the run blocks that log was made of
  line,             \* the line read last
  lineno,           \* the number of lines read
  style, yamllog, runs, errors, in_thermo, in_data_section, keys, current_run,
  heap,             \* the Run dicts alive, by identity; runs and current_run refer into it
  pc,               \* "run", "done" (the loop ended), "failed" (an exception left it)
  error,            \* the exception that ended the parse
  stream            \* the file object of the with statement: "open" or "closed"

logvars == <<f, plan, line, lineno, style, yamllog, runs, errors, in_thermo,
             in_data_section, keys, current_run, heap, pc, error, stream>>

\* AvgChunkFile
VARIABLES
  ck_f,             \* the lines of the file not read yet, when the file is drawn in advance
  ck_plan,          \* what that file was made from
  ck_read,          \* the lines read so far
  ck_pc,            \* "run", "done" (the loop ended), "failed" (an exception left it)
  ck_error,         \* the exception that ended the parse
  ck_stream,        \* the file object of the with statement: "open" or "closed"
  timestep,         \* -1 is None: the timesteps of the files read are not negative
  chunks_read, num_chunks, timesteps, total_count, chunks, fix_name, group_name,
  columns, ndim, compress, coord_start, coord_end, ncount_start, data_start

chunkvars == <<ck_f, ck_plan, ck_read, ck_pc, ck_error, ck_stream, timestep, chunks_read, num_chunks, timesteps,
               total_count, chunks, fix_name, group_name, columns, ndim, compress,
               coord_start, coord_end, ncount_start, data_start>>

layoutvars == <<columns, ndim, compress, coord_start, coord_end, ncount_start, data_start>>

\* the calls of the two constructors
VARIABLES
  turn,             \* the constructor that runs: "log" (LogFile) or "chunk" (AvgChunkFile)
  calls             \* what the calls that ended gave, in call order

callvars == <<turn, calls>>

\* -------------------------------------------------- the line classes
HasSubSeq(l, s) ==
  \E i \in 0..(Len(l) - Len(s)) : \A j \in 1..Len(s) : l[i + j] = s[j]

\* "ERROR" in line or "exited on signal" in line
IsErrorLine(l) ==
  \/ \E i \in 1..Len(l) : l[i] \in {"ERROR", "ERROR:"}
  \/ HasSubSeq(l, <<"exited", "on", "signal">>)

\* re.match(r'^ *Step ', line)
IsStepHeader(l) == Len(l) >= 2 /\ l[1] = "Step"

\* re.match(r'^(keywords:.*$|data:$|---$|  - \[.*\]$)', line); a list item
\* "  - [a, b]" is the line <<"-", a, b>>
IsYamlItem(l) == Len(l) >= 2 /\ l[1] = "-"
IsYamlLine(l) ==
  \/ Len(l) >= 1 /\ l[1] = "keywords:"
  \/ l = <<"data:">>
  \/ l = <<"---">>
  \/ IsYamlItem(l)

\* re.match(r'^\.\.\.$', line)
IsYamlEnd(l) == l = <<"...">>

\* re.match(r'^------* Step ', line)
IsBanner(l) == Len(l) >= 3 /\ l[1] \in LongDashes /\ l[2] = "Step"

\* line.startswith('Loop time of')
IsLoopTime(l) == Len(l) >= 3 /\ SubSeq(l, 1, 3) = <<"Loop", "time", "of">>

\* the chain with the header test moved before the error test
LineClassErrorAfterHeader(l) ==
  IF IsStepHeader(l) THEN "header"
  ELSE IF IsErrorLine(l) THEN "error"
  ELSE IF IsYamlLine(l) THEN "yaml"
  ELSE IF IsYamlEnd(l) THEN "yamlend"
  ELSE IF IsBanner(l) THEN "banner"
  ELSE IF IsLoopTime(l) THEN "loop"
  ELSE "data"

\* The if/elif chain of the loop body, lines 54 to 99: the first test that matches.
LineClass(l) ==
  IF IsErrorLine(l) THEN "error"
  ELSE IF IsStepHeader(l) THEN "header"
  ELSE IF IsYamlLine(l) THEN "yaml"
  ELSE IF IsYamlEnd(l) THEN "yamlend"
  ELSE IF IsBanner(l) THEN "banner"
  ELSE IF IsLoopTime(l) THEN "loop"
  ELSE "data"

\* alpha.search(line)
HasAlpha(l) == \E i \in 1..Len(l) : ~NoAlpha(l[i])

\* kvpairs.findall(line): the <<name, value>> pairs, left to right
RECURSIVE KvPairs(_)
KvPairs(l) ==
  IF Len(l) < 3 THEN <<>>
  ELSE IF IsWord(l[1]) /\ l[2] = "=" /\ IsNumeric(l[3])
       THEN <<<<l[1], l[3]>>>> \o KvPairs(SubSeq(l, 4, Len(l)))
       ELSE KvPairs(Tail(l))

\* the test made with the pairs of the line instead of the character
HasEqualsAsPair(l) == KvPairs(l) # <<>>

\* '=' in line
HasEquals(l) == "=" \in Range(l)

\* ------------------------------------------- yaml.load of the buffer
\* The buffer holds keywords:, data:, --- and list-item lines only.  It decodes
\* to a mapping when, after an optional leading ---, every list item follows
\* data: or another item; a later key replaces an earlier one.
YamlBody(buf) == IF buf # <<>> /\ buf[1] = <<"---">> THEN Tail(buf) ELSE buf

IsYamlKeywords(l) == Len(l) >= 1 /\ l[1] = "keywords:"

RECURSIVE YamlItems(_, _)
YamlItems(body, i) ==
  IF i <= Len(body) /\ IsYamlItem(body[i])
  THEN <<[j \in 1..(Len(body[i]) - 1) |-> FloatOf(body[i][j + 1])]>> \o YamlItems(body, i + 1)
  ELSE <<>>

IsYamlData(l) == l = <<"data:">>

\* the last line of the body that sets the key, 0 when none does
Last(idx) == IF idx = {} THEN 0 ELSE CHOOSE i \in idx : \A j \in idx : j <= i

YamlLoad(buf) ==
  LET body == YamlBody(buf)
      kw == Last({i \in 1..Len(body) : IsYamlKeywords(body[i])})
      da == Last({i \in 1..Len(body) : IsYamlData(body[i])})
  IN  IF \/ \E i \in 1..Len(body) : body[i] = <<"---">>
         \/ \E i \in 1..Len(body) :
              IsYamlItem(body[i]) /\ (i = 1 \/ ~(IsYamlData(body[i - 1]) \/ IsYamlItem(body[i - 1])))
      THEN [err |-> "YAMLError", keywords |-> <<>>, data |-> <<>>]
      ELSE IF body = <<>> THEN [err |-> "TypeError", keywords |-> <<>>, data |-> <<>>]
      ELSE IF kw = 0 \/ da = 0 THEN [err |-> "KeyError", keywords |-> <<>>, data |-> <<>>]
      ELSE IF Len(body[kw]) < 2 \/ YamlItems(body, da + 1) = <<>>
           THEN [err |-> "TypeError", keywords |-> <<>>, data |-> <<>>]
      ELSE [err |-> "", keywords |-> Tail(body[kw]), data |-> YamlItems(body, da + 1)]

\* for k in thermo['keywords']: current_run[k].append(step[icol]); icol += 1
RECURSIVE AppendStep(_, _, _, _)
AppendStep(r, kws, step, icol) ==
  IF icol > Len(kws) THEN r
  ELSE AppendStep(AppendTo(r, kws[icol], step[icol]), kws, step, icol + 1)

\* for step in thermo['data']: ...
RECURSIVE AppendData(_, _, _)
AppendData(r, kws, data) ==
  IF data = <<>> THEN r ELSE AppendData(AppendStep(r, kws, Head(data), 1), kws, Tail(data))

\* ------------------------------------------- the banner's two numbers
\* line.strip('-\n').split('-----'), str_step.split()[1],
\* str_cpu.split('=')[1].split()[0]
StripDashes(l) ==
  LET a == IF l # <<>> /\ l[1] \in Dashes THEN Tail(l) ELSE l
  IN  IF a # <<>> /\ a[Len(a)] \in Dashes THEN SubSeq(a, 1, Len(a) - 1) ELSE a

BannerFields(l) ==
  LET s == StripDashes(l)
      cuts == {i \in 1..Len(s) : s[i] \in LongDashes}
      c == CHOOSE i \in cuts : TRUE
      part1 == SubSeq(s, 1, c - 1)
      part2 == SubSeq(s, c + 1, Len(s))
      eqs == {i \in 1..Len(part2) : part2[i] = "="}
      e == CHOOSE i \in eqs : \A j \in eqs : i <= j
  IN  IF Cardinality(cuts) # 1 \/ s[c] # "-----" THEN [err |-> "ValueError", step |-> 0, cpu |-> 0]
      ELSE IF Len(part1) < 2 THEN [err |-> "IndexError", step |-> 0, cpu |-> 0]
      ELSE IF ~IsNum(part1[2]) THEN [err |-> "ValueError", step |-> 0, cpu |-> 0]
      ELSE IF eqs = {} \/ e = Len(part2) \/ part2[e + 1] = "="
           THEN [err |-> "IndexError", step |-> 0, cpu |-> 0]
      ELSE IF ~IsNum(part2[e + 1]) THEN [err |-> "ValueError", step |-> 0, cpu |-> 0]
      ELSE [err |-> "", step |-> FloatOf(part1[2]), cpu |-> FloatOf(part2[e + 1])]

\* --------------------------------------------------- the loop body
LoopTimeLine == <<"Loop", "time", "of", "5">>

ErrorText == <<"ERROR:", "Lost", "atoms">>

BannerLine(step, cpu) ==
  <<"----------", "Step", Str(step), "-----", "CPU", "=", Str(cpu), "(sec)", "----------">>

LogLines ==
  { ErrorText,
    <<"Step", "ERROR">>,
    <<"Step", "Temp">>,
    <<"keywords:", "Step", "CPU">>,
    <<"data:">>,
    <<"-", "3", "4">>,
    <<"...">>,
    BannerLine(7, 8),
    LoopTimeLine,
    <<"1", "2">>,
    <<"Temp", "=", "9">>,
    <<"Temp", "=", "Press">>,
    <<"1", "e">>,
    <<"WARNING:", "e">> }

\* The lines the stream can give next: the next line of the log drawn in
\* advance when there is one, any line otherwise.
Stream ==
  IF plan # <<>> THEN (IF f # <<>> THEN {Head(f)} ELSE {})
  ELSE (IF lineno < MaxLines THEN LogLines ELSE {})

\* for line in f
Read(l) ==
  /\ turn = "log"
  /\ pc = "run"
  /\ line' = l
  /\ lineno' = lineno + 1
  /\ f' = IF f # <<>> THEN Tail(f) ELSE f
  /\ UNCHANGED <<plan, chunkvars, callvars>>

\* current_run = <a new dict r>.  The dict current_run referred to is freed
\* when the result list does not hold it, and the new dict takes its place.
NewId == IF current_run # 0 /\ current_run \notin Range(runs) THEN current_run
         ELSE Len(heap) + 1

Bind(r) ==
  /\ current_run' = NewId
  /\ heap' = IF NewId <= Len(heap) THEN [heap EXCEPT ![NewId] = r] ELSE Append(heap, r)

\* an exception that leaves the with block without its __exit__: the file
\* stays open
RaiseLeavesOpen(e) ==
  /\ pc' = "failed"
  /\ error' = e
  /\ stream' = stream
  /\ UNCHANGED <<style, yamllog, runs, errors, in_thermo, in_data_section, keys,
                 current_run, heap>>

\* an exception leaves the loop, the with block, which closes the file, and
\* the constructor
Raise(e) ==
  /\ pc' = "failed"
  /\ error' = e
  /\ stream' = "closed"
  /\ UNCHANGED <<style, yamllog, runs, errors, in_thermo, in_data_section, keys,
                 current_run, heap>>

Continue == UNCHANGED <<pc, error, stream>>

\* lines 54-55
ErrorLine(l) ==
  /\ Read(l)
  /\ LineClass(l) = "error"
  /\ errors' = Append(errors, l)
  /\ Continue
  /\ UNCHANGED <<style, yamllog, runs, in_thermo, in_data_section, keys, current_run, heap>>

\* lines 57-63
StepHeader(l) ==
  /\ Read(l)
  /\ LineClass(l) = "header"
  /\ in_thermo' = TRUE
  /\ in_data_section' = TRUE
  /\ keys' = l
  /\ Bind(SetAllEmpty(EmptyRun, l))
  /\ Continue
  /\ UNCHANGED <<style, yamllog, runs, errors>>

\* lines 65-68
YamlLine(l) ==
  /\ Read(l)
  /\ LineClass(l) = "yaml"
  /\ style' = STYLE_YAML
  /\ yamllog' = Append(yamllog, l)
  /\ Bind(EmptyRun)
  /\ Continue
  /\ UNCHANGED <<runs, errors, in_thermo, in_data_section, keys>>

\* the terminator without the last statement, yamllog = ""
YamlEndKeepBuffer(l) ==
  /\ Read(l)
  /\ LineClass(l) = "yamlend"
  /\ LET thermo == YamlLoad(yamllog)
     IN  IF thermo.err # "" THEN Raise(thermo.err)
         ELSE IF \E i \in 1..Len(thermo.data) : Len(thermo.data[i]) < Len(thermo.keywords)
              THEN Raise("IndexError")
         ELSE /\ heap' = [heap EXCEPT ![current_run] =
                            AppendData(SetAllEmpty(@, thermo.keywords),
                                       thermo.keywords, thermo.data)]
              /\ runs' = Append(runs, current_run)
              /\ yamllog' = yamllog
              /\ Continue
              /\ UNCHANGED <<style, errors, in_thermo, in_data_section, keys, current_run>>

\* lines 70-80
YamlEnd(l) ==
  /\ Read(l)
  /\ LineClass(l) = "yamlend"
  /\ LET thermo == YamlLoad(yamllog)
     IN  IF thermo.err # "" THEN Raise(thermo.err)
         ELSE IF \E i \in 1..Len(thermo.data) : Len(thermo.data[i]) < Len(thermo.keywords)
              THEN Raise("IndexError")
         ELSE /\ heap' = [heap EXCEPT ![current_run] =
                            AppendData(SetAllEmpty(@, thermo.keywords),
                                       thermo.keywords, thermo.data)]
              /\ runs' = Append(runs, current_run)
              /\ yamllog' = <<>>
              /\ Continue
              /\ UNCHANGED <<style, errors, in_thermo, in_data_section, keys, current_run>>

\* the banner without the test of in_thermo: every banner starts a new Run
BannerAlwaysNew(l) ==
  /\ Read(l)
  /\ LineClass(l) = "banner"
  /\ LET b == BannerFields(l)
         id == NewId
         r == [keys |-> <<"Step", "CPU">>, col |-> <<<<>>, <<>>>>]
     IN  IF b.err # "" THEN Raise(b.err)
         ELSE /\ current_run' = id
              /\ heap' = LET h == IF id <= Len(heap) THEN [heap EXCEPT ![id] = r]
                                  ELSE Append(heap, r)
                         IN  [h EXCEPT ![id] = AppendTo(AppendTo(@, "Step", b.step), "CPU", b.cpu)]
              /\ in_thermo' = TRUE
              /\ in_data_section' = TRUE
              /\ style' = STYLE_MULTI
              /\ Continue
              /\ UNCHANGED <<yamllog, runs, errors, keys>>

\* lines 82-92
Banner(l) ==
  /\ Read(l)
  /\ LineClass(l) = "banner"
  /\ LET b == BannerFields(l)
         id == IF in_thermo THEN current_run ELSE NewId
         r == IF in_thermo THEN heap[current_run]
              ELSE [keys |-> <<"Step", "CPU">>, col |-> <<<<>>, <<>>>>]
     IN  IF b.err # "" THEN Raise(b.err)
         ELSE IF ~HasKey(r, "Step") \/ ~HasKey(r, "CPU") THEN Raise("KeyError")
         ELSE /\ current_run' = id
              /\ heap' = LET h == IF id <= Len(heap) THEN [heap EXCEPT ![id] = r]
                                  ELSE Append(heap, r)
                         IN  [h EXCEPT ![id] = AppendTo(AppendTo(@, "Step", b.step), "CPU", b.cpu)]
              /\ in_thermo' = TRUE
              /\ in_data_section' = TRUE
              /\ style' = STYLE_MULTI
              /\ Continue
              /\ UNCHANGED <<yamllog, runs, errors, keys>>

\* lines 94-97
LoopTime(l) ==
  /\ Read(l)
  /\ LineClass(l) = "loop"
  /\ IF style # STYLE_YAML /\ current_run = 0 THEN Raise("UnboundLocalError")
     ELSE /\ in_thermo' = FALSE
          /\ runs' = IF style # STYLE_YAML THEN Append(runs, current_run) ELSE runs
          /\ Continue
          /\ UNCHANGED <<style, yamllog, errors, in_data_section, keys, current_run, heap>>

\* for k, v in zip(keys, map(float, line.split())): current_run[k].append(v)
RECURSIVE AppendRow(_, _, _)
AppendRow(r, ks, toks) ==
  IF ks = <<>> \/ toks = <<>> THEN r
  ELSE AppendRow(AppendTo(r, Head(ks), FloatOf(Head(toks))), Tail(ks), Tail(toks))

\* for k, v in kvpairs.findall(line): create or extend current_run[k]
RECURSIVE AppendPairs(_, _)
AppendPairs(r, kv) ==
  IF kv = <<>> THEN r
  ELSE LET k == Head(kv)[1]
           v == FloatOf(Head(kv)[2])
       IN  AppendPairs(IF HasKey(r, k) THEN AppendTo(r, k, v)
                       ELSE [keys |-> Append(r.keys, k), col |-> Append(r.col, <<v>>)],
                       Tail(kv))

\* the data branch without the test of alpha: every line is read as a row
ThermoDataNoSkip(l) ==
  /\ Read(l)
  /\ LineClass(l) = "data"
  /\ in_thermo /\ in_data_section
  /\ IF style = STYLE_DEFAULT THEN
       IF \E i \in 1..Min(Len(keys), Len(l)) : ~IsNum(l[i]) THEN Raise("ValueError")
       ELSE IF \E i \in 1..Min(Len(keys), Len(l)) : ~HasKey(heap[current_run], keys[i])
            THEN Raise("KeyError")
       ELSE /\ heap' = [heap EXCEPT ![current_run] = AppendRow(@, keys, l)]
            /\ Continue
            /\ UNCHANGED <<style, yamllog, runs, errors, in_thermo, in_data_section, keys,
                           current_run>>
     ELSE IF style = STYLE_MULTI THEN
       IF ~HasEquals(l) THEN
         /\ in_data_section' = FALSE
         /\ Continue
         /\ UNCHANGED <<style, yamllog, runs, errors, in_thermo, keys, current_run, heap>>
       ELSE IF \E i \in 1..Len(KvPairs(l)) : ~IsNum(KvPairs(l)[i][2]) THEN Raise("ValueError")
       ELSE /\ heap' = [heap EXCEPT ![current_run] = AppendPairs(@, KvPairs(l))]
            /\ Continue
            /\ UNCHANGED <<style, yamllog, runs, errors, in_thermo, in_data_section, keys,
                           current_run>>
     ELSE
       /\ Continue
       /\ UNCHANGED <<style, yamllog, runs, errors, in_thermo, in_data_section, keys,
                      current_run, heap>>


\* lines 99-114
ThermoData(l) ==
  /\ Read(l)
  /\ LineClass(l) = "data"
  /\ in_thermo /\ in_data_section
  /\ IF style = STYLE_DEFAULT THEN
       IF HasAlpha(l) THEN
         /\ Continue
         /\ UNCHANGED <<style, yamllog, runs, errors, in_thermo, in_data_section, keys,
                        current_run, heap>>
       ELSE IF \E i \in 1..Min(Len(keys), Len(l)) : ~IsNum(l[i]) THEN Raise("ValueError")
       ELSE IF \E i \in 1..Min(Len(keys), Len(l)) : ~HasKey(heap[current_run], keys[i])
            THEN Raise("KeyError")
       ELSE /\ heap' = [heap EXCEPT ![current_run] = AppendRow(@, keys, l)]
            /\ Continue
            /\ UNCHANGED <<style, yamllog, runs, errors, in_thermo, in_data_section, keys,
                           current_run>>
     ELSE IF style = STYLE_MULTI THEN
       IF ~HasEquals(l) THEN
         /\ in_data_section' = FALSE
         /\ Continue
         /\ UNCHANGED <<style, yamllog, runs, errors, in_thermo, keys, current_run, heap>>
       ELSE IF \E i \in 1..Len(KvPairs(l)) : ~IsNum(KvPairs(l)[i][2]) THEN Raise("ValueError")
       ELSE /\ heap' = [heap EXCEPT ![current_run] = AppendPairs(@, KvPairs(l))]
            /\ Continue
            /\ UNCHANGED <<style, yamllog, runs, errors, in_thermo, in_data_section, keys,
                           current_run>>
     ELSE
       /\ Continue
       /\ UNCHANGED <<style, yamllog, runs, errors, in_thermo, in_data_section, keys,
                      current_run, heap>>

\* no branch of the chain takes the line
OtherLine(l) ==
  /\ Read(l)
  /\ LineClass(l) = "data"
  /\ ~(in_thermo /\ in_data_section)
  /\ Continue
  /\ UNCHANGED <<style, yamllog, runs, errors, in_thermo, in_data_section, keys,
                 current_run, heap>>

\* ------------------------------------------------------- the logs read
\* A log drawn in advance is a sequence of segments: complete run blocks of
\* the three thermo styles, each with n data rows (banners, list items), and
\* single diagnostic lines between them.  bi is the segment's place in the
\* log, which makes the numbers of a block its own.
Blocks ==
  [kind : {"default"}, n : 0..MaxRows] \cup [kind : {"multi", "yaml"}, n : 1..MaxRows]

Segments == Blocks \cup [kind : {"error"}, n : {0}]

BlockKeys(b) ==
  IF b.kind = "default" THEN <<"Step", "Temp", "Press">>
  ELSE IF b.kind = "multi" THEN <<"Step", "CPU", "Temp", "Press">>
  ELSE <<"Step", "Temp">>

\* the number in row r, column j of block bi
Val(bi, r, j) == ((bi - 1) * MaxRows + (r - 1)) * 4 + j

BlockRow(b, bi, r) == [j \in 1..Len(BlockKeys(b)) |-> Str(Val(bi, r, j))]

RECURSIVE BlockBody(_, _, _)
BlockBody(b, bi, r) ==
  IF r > b.n THEN <<>>
  ELSE (IF b.kind = "default" THEN <<BlockRow(b, bi, r)>>
        ELSE IF b.kind = "multi"
             THEN << BannerLine(Val(bi, r, 1), Val(bi, r, 2)),
                     <<"Temp", "=", Str(Val(bi, r, 3)), "Press", "=", Str(Val(bi, r, 4))>> >>
        ELSE << <<"-">> \o BlockRow(b, bi, r) >>)
       \o BlockBody(b, bi, r + 1)

BlockLines(b, bi) ==
  IF b.kind = "error" THEN <<ErrorText>>
  ELSE (IF b.kind = "default" THEN <<BlockKeys(b)>>
        ELSE IF b.kind = "multi" THEN <<>>
        ELSE << <<"---">>, <<"keywords:">> \o BlockKeys(b), <<"data:">> >>)
       \o BlockBody(b, bi, 1)
       \o (IF b.kind = "yaml" THEN << <<"...">> >> ELSE <<>>)
       \o <<LoopTimeLine>>

RECURSIVE PlanLines(_, _)
PlanLines(p, bi) ==
  IF bi > Len(p) THEN <<>> ELSE BlockLines(p[bi], bi) \o PlanLines(p, bi + 1)

Plans == UNION {[1..n -> Segments] : n \in 1..MaxBlocks}

\* ------------------------------------------------------- specifications
LogInit ==
  /\ line = <<>>
  /\ lineno = 0
  /\ style = STYLE_DEFAULT
  /\ yamllog = <<>>
  /\ runs = <<>>
  /\ errors = <<>>
  /\ in_thermo = FALSE
  /\ in_data_section = FALSE
  /\ keys = <<>>
  /\ current_run = 0
  /\ heap = <<>>
  /\ pc = "run"
  /\ error = ""
  /\ stream = "open"

ChunkState ==
  /\ ck_read = <<>>
  /\ ck_pc = "run"
  /\ ck_error = ""
  /\ ck_stream = "open"
  /\ timestep = -1
  /\ chunks_read = 0
  /\ num_chunks = 0
  /\ timesteps = <<>>
  /\ total_count = <<>>
  /\ chunks = <<>>
  /\ fix_name = ""
  /\ group_name = ""
  /\ columns = <<>>
  /\ ndim = 0
  /\ compress = FALSE
  /\ coord_start = -1
  /\ coord_end = -1
  /\ ncount_start = 0
  /\ data_start = 0

ChunkInit ==
  /\ ck_f = <<>>
  /\ ck_plan = <<>>
  /\ ChunkState

\* an arbitrary log or chunk file, one line at a time
Init ==
  /\ turn \in {"log", "chunk"}
  /\ calls = <<>>
  /\ f = <<>>
  /\ plan = <<>>
  /\ LogInit
  /\ ChunkInit

\* a log made of complete run blocks
InitBlocks ==
  /\ turn = "log"
  /\ calls = <<>>
  /\ plan \in Plans
  /\ f = PlanLines(plan, 1)
  /\ LogInit
  /\ ChunkInit

\* the loop and the with block end
EndOfFile ==
  /\ turn = "log"
  /\ pc = "run"
  /\ f = <<>>
  /\ pc' = "done"
  /\ stream' = "closed"
  /\ UNCHANGED <<f, plan, line, lineno, style, yamllog, runs, errors, in_thermo,
                 in_data_section, keys, current_run, heap, error, chunkvars, callvars>>

\* ========================================================= AvgChunkFile
HeaderError == "Chunk data reader only supports default avg/chunk headers!"
ChunkCountError == "Currently, changing numbers of chunks are not supported."

\* enumerate(f): the number of the line being read
ck_lineno == Len(ck_read)

\* s.startswith(prefix), token by token
\* The prefix ends inside the line's token, or at its end: the token is the
\* prefix's last one, or begins with it and goes on.
TokenBegins(tok, p) == tok = p \/ tok = p \o "s"

StartsWith(l, prefix) ==
  /\ Len(l) >= Len(prefix)
  /\ SubSeq(l, 1, Len(prefix) - 1) = SubSeq(prefix, 1, Len(prefix) - 1)
  /\ TokenBegins(l[Len(prefix)], prefix[Len(prefix)])

\* "Coord%d" % ndim
CoordName(n) == "Coord" \o Str(n)

CountCoordInToken(tok) ==
  IF tok = "c_Coord" \/ \E k \in 1..9 : tok = CoordName(k) THEN 1 ELSE 0

\* line.count("Coord")
RECURSIVE CountCoord(_)
CountCoord(l) == IF l = <<>> THEN 0 ELSE CountCoordInToken(Head(l)) + CountCoord(Tail(l))

\* 'OrigID' in line
HasOrigID(l) == "OrigID" \in Range(l)

\* columns.index(name), 0-based; -1 when it raises ValueError
IndexOf(cols, name) ==
  IF name \in Range(cols)
  THEN (CHOOSE i \in 1..Len(cols) : cols[i] = name /\ \A j \in 1..(i - 1) : cols[j] # name) - 1
  ELSE -1

\* parts[i], 0-based
Part(parts, i) == parts[i + 1]

ChunkRaise(e) ==
  /\ ck_pc' = "failed"
  /\ ck_error' = e
  /\ ck_stream' = "closed"
  /\ UNCHANGED <<timestep, chunks_read, num_chunks, timesteps, total_count, chunks,
                 fix_name, group_name, layoutvars>>

\* for lineno, line in enumerate(f)
ChunkRead(l) ==
  /\ turn = "chunk"
  /\ ck_pc = "run"
  /\ ck_read' = Append(ck_read, l)
  /\ ck_f' = IF ck_f # <<>> THEN Tail(ck_f) ELSE ck_f
  /\ UNCHANGED <<ck_plan, logvars, callvars>>

\* lines 136-142
Line0(l) ==
  /\ ChunkRead(l)
  /\ ck_lineno = 0
  /\ IF ~StartsWith(l, <<"#", "Chunk-averaged", "data", "for", "fix">>) THEN ChunkRaise(HeaderError)
     ELSE IF Len(l) < 9 THEN ChunkRaise("IndexError")
     ELSE /\ fix_name' = Part(l, 5)
          /\ group_name' = Part(l, 8)
          /\ UNCHANGED <<ck_pc, ck_error, ck_stream, timestep, chunks_read, num_chunks, timesteps,
                         total_count, chunks, layoutvars>>

\* line 1 tested with == instead of startswith
Line1Exact(l) ==
  /\ ChunkRead(l)
  /\ ck_lineno = 1
  /\ IF l # <<"#", "Timestep", "Number-of-chunks", "Total-count">>
     THEN ChunkRaise(HeaderError)
     ELSE UNCHANGED <<ck_pc, ck_error, ck_stream, timestep, chunks_read, num_chunks, timesteps,
                      total_count, chunks, fix_name, group_name, layoutvars>>

\* lines 143-146
Line1(l) ==
  /\ ChunkRead(l)
  /\ ck_lineno = 1
  /\ IF ~StartsWith(l, <<"#", "Timestep", "Number-of-chunks", "Total-count">>)
     THEN ChunkRaise(HeaderError)
     ELSE UNCHANGED <<ck_pc, ck_error, ck_stream, timestep, chunks_read, num_chunks, timesteps,
                      total_count, chunks, fix_name, group_name, layoutvars>>

\* lines 147-163
Line2Read(l) ==
  /\ ChunkRead(l)
  /\ ck_lineno = 2
  /\ LET cols == Tail(l)
         nd == CountCoord(l)
     IN  IF ~StartsWith(l, <<"#">>) THEN ChunkRaise(HeaderError)
         ELSE IF nd > 0 /\ (IndexOf(cols, "Coord1") < 0 \/ IndexOf(cols, CoordName(nd)) < 0)
              THEN ChunkRaise("ValueError")
         ELSE /\ columns' = cols
              /\ ndim' = nd
              /\ compress' = HasOrigID(l)
              /\ coord_start' = IF nd > 0 THEN IndexOf(cols, "Coord1") ELSE -1
              /\ coord_end' = IF nd > 0 THEN IndexOf(cols, CoordName(nd)) ELSE -1
              /\ ncount_start' = IF nd > 0 THEN IndexOf(cols, CoordName(nd)) + 1 ELSE 2
              /\ data_start' = IF nd > 0 THEN IndexOf(cols, CoordName(nd)) + 2 ELSE 3
              /\ UNCHANGED <<ck_pc, ck_error, ck_stream, timestep, chunks_read, num_chunks, timesteps,
                             total_count, chunks, fix_name, group_name>>

NewChunk == [id |-> 0, coord |-> <<>>, ncount |-> <<>>, data |-> EmptyRun]

\* lines 167-179
FirstTimestep(l) ==
  /\ ChunkRead(l)
  /\ ck_lineno >= 3
  /\ timestep = -1
  /\ IF Len(l) < 3 THEN ChunkRaise("IndexError")
     ELSE IF \E i \in 1..3 : ~IsNum(l[i]) THEN ChunkRaise("ValueError")
     ELSE /\ timestep' = FloatOf(Part(l, 0))
          /\ num_chunks' = FloatOf(Part(l, 1))
          /\ timesteps' = Append(timesteps, FloatOf(Part(l, 0)))
          /\ total_count' = Append(total_count, FloatOf(Part(l, 2)))
          /\ chunks' = chunks \o [i \in 1..FloatOf(Part(l, 1)) |-> NewChunk]
          /\ UNCHANGED <<ck_pc, ck_error, ck_stream, chunks_read, fix_name, group_name, layoutvars>>

\* self.chunks[i] for a Python index i: a negative one counts from the end;
\* 0 when it raises IndexError, else the 1-based place
ListPlace(n, i) == IF 0 <= i /\ i < n THEN i + 1 ELSE IF -n <= i /\ i < 0 THEN n + i + 1 ELSE 0

\* for i, data_column in list(enumerate(columns))[data_start:]: ...
RECURSIVE AppendColumns(_, _, _, _)
AppendColumns(d, cols, parts, i) ==
  IF i >= Len(cols) THEN d
  ELSE LET k == cols[i + 1]
           v == FloatOf(Part(parts, i))
       IN  AppendColumns(IF HasKey(d, k) THEN AppendTo(d, k, v)
                         ELSE [keys |-> Append(d.keys, k), col |-> Append(d.col, <<v>>)],
                         cols, parts, i + 1)

\* the chunk record after lines 190-203
Sampled(current, chunk_id, parts) ==
  [id |-> chunk_id,
   ncount |-> Append(current.ncount, FloatOf(Part(parts, ncount_start))),
   coord |-> IF ndim > 0
             THEN Append(current.coord,
                         [j \in 1..(Min(coord_end + 1, Len(parts)) - coord_start) |->
                            FloatOf(Part(parts, coord_start + j - 1))])
             ELSE current.coord,
   data |-> AppendColumns(current.data, columns, parts, data_start)]

\* the chunk-data branch without its last statement, the assert
ChunkDataNoAssert(l) ==
  /\ ChunkRead(l)
  /\ ck_lineno >= 3
  /\ timestep # -1
  /\ chunks_read < num_chunks
  /\ LET chunk == FloatOf(Part(l, 0))
         chunk_id == IF compress THEN FloatOf(Part(l, 1)) ELSE chunk
         place == ListPlace(Len(chunks), chunk_id - 1)
     IN  IF Len(l) <= ncount_start \/ (compress /\ Len(l) < 2) THEN ChunkRaise("IndexError")
         ELSE IF \E i \in 1..Len(l) : ~IsNum(l[i]) THEN ChunkRaise("ValueError")
         ELSE IF place = 0 THEN ChunkRaise("IndexError")
         ELSE IF data_start < Len(columns) /\ Len(l) < Len(columns) THEN ChunkRaise("IndexError")
         ELSE /\ chunks' = [chunks EXCEPT ![place] = Sampled(@, chunk_id, l)]
              /\ chunks_read' = chunks_read + 1
              /\ UNCHANGED <<ck_pc, ck_error, ck_stream, timestep, num_chunks, timesteps, total_count,
                             fix_name, group_name, layoutvars>>

\* lines 180-206
ChunkData(l) ==
  /\ ChunkRead(l)
  /\ ck_lineno >= 3
  /\ timestep # -1
  /\ chunks_read < num_chunks
  /\ LET chunk == FloatOf(Part(l, 0))
         chunk_id == IF compress THEN FloatOf(Part(l, 1)) ELSE chunk
         place == ListPlace(Len(chunks), chunk_id - 1)
     IN  IF Len(l) <= ncount_start \/ (compress /\ Len(l) < 2) THEN ChunkRaise("IndexError")
         ELSE IF \E i \in 1..Len(l) : ~IsNum(l[i]) THEN ChunkRaise("ValueError")
         ELSE IF place = 0 THEN ChunkRaise("IndexError")
         ELSE IF data_start < Len(columns) /\ Len(l) < Len(columns) THEN ChunkRaise("IndexError")
         ELSE IF chunk # chunks_read + 1 THEN ChunkRaise("AssertionError")
         ELSE /\ chunks' = [chunks EXCEPT ![place] = Sampled(@, chunk_id, l)]
              /\ chunks_read' = chunks_read + 1
              /\ UNCHANGED <<ck_pc, ck_error, ck_stream, timestep, num_chunks, timesteps, total_count,
                             fix_name, group_name, layoutvars>>

\* the later timestep line without chunks_read = 0
LaterTimestepKeepsCounter(l) ==
  /\ ChunkRead(l)
  /\ ck_lineno >= 3
  /\ timestep # -1
  /\ ~(chunks_read < num_chunks)
  /\ IF Len(l) < 2 THEN ChunkRaise("IndexError")
     ELSE IF ~IsNum(Part(l, 1)) THEN ChunkRaise("ValueError")
     ELSE IF num_chunks # FloatOf(Part(l, 1)) THEN ChunkRaise(ChunkCountError)
     ELSE IF Len(l) < 3 THEN ChunkRaise("IndexError")
     ELSE IF ~IsNum(Part(l, 0)) \/ ~IsNum(Part(l, 2)) THEN ChunkRaise("ValueError")
     ELSE /\ timestep' = FloatOf(Part(l, 0))
          /\ timesteps' = Append(timesteps, FloatOf(Part(l, 0)))
          /\ total_count' = Append(total_count, FloatOf(Part(l, 2)))
          /\ UNCHANGED <<ck_pc, ck_error, ck_stream, chunks_read, num_chunks, chunks, fix_name,
                         group_name, layoutvars>>

\* the later timestep line with the two appends before the test of the count
LaterTimestepAppendsFirst(l) ==
  /\ ChunkRead(l)
  /\ ck_lineno >= 3
  /\ timestep # -1
  /\ ~(chunks_read < num_chunks)
  /\ IF Len(l) < 3 THEN ChunkRaise("IndexError")
     ELSE IF \E i \in 1..3 : ~IsNum(l[i]) THEN ChunkRaise("ValueError")
     ELSE /\ timestep' = FloatOf(Part(l, 0))
          /\ timesteps' = Append(timesteps, FloatOf(Part(l, 0)))
          /\ total_count' = Append(total_count, FloatOf(Part(l, 2)))
          /\ IF num_chunks # FloatOf(Part(l, 1))
             THEN /\ ck_pc' = "failed"
                  /\ ck_error' = ChunkCountError
                  /\ ck_stream' = "closed"
                  /\ UNCHANGED chunks_read
             ELSE /\ chunks_read' = 0
                  /\ UNCHANGED <<ck_pc, ck_error, ck_stream>>
          /\ UNCHANGED <<num_chunks, chunks, fix_name, group_name, layoutvars>>

\* lines 207-217
LaterTimestep(l) ==
  /\ ChunkRead(l)
  /\ ck_lineno >= 3
  /\ timestep # -1
  /\ ~(chunks_read < num_chunks)
  /\ IF Len(l) < 2 THEN ChunkRaise("IndexError")
     ELSE IF ~IsNum(Part(l, 1)) THEN ChunkRaise("ValueError")
     ELSE IF num_chunks # FloatOf(Part(l, 1)) THEN ChunkRaise(ChunkCountError)
     ELSE IF Len(l) < 3 THEN ChunkRaise("IndexError")
     ELSE IF ~IsNum(Part(l, 0)) \/ ~IsNum(Part(l, 2)) THEN ChunkRaise("ValueError")
     ELSE /\ timestep' = FloatOf(Part(l, 0))
          /\ chunks_read' = 0
          /\ timesteps' = Append(timesteps, FloatOf(Part(l, 0)))
          /\ total_count' = Append(total_count, FloatOf(Part(l, 2)))
          /\ UNCHANGED <<ck_pc, ck_error, ck_stream, num_chunks, chunks, fix_name, group_name, layoutvars>>

\* the loop and the with block end
ChunkEndOfFile ==
  /\ turn = "chunk"
  /\ ck_pc = "run"
  /\ ck_f = <<>>
  /\ ck_pc' = "done"
  /\ ck_stream' = "closed"
  /\ UNCHANGED <<ck_f, ck_plan, ck_read, ck_error, timestep, chunks_read, num_chunks,
                 timesteps, total_count, chunks, fix_name, group_name, layoutvars, logvars,
                 callvars>>

\* ------------------------------------------------ the chunk files read
Line0s ==
  { <<"#", "Chunk-averaged", "data", "for", "fix", "1", "and", "group", "all">>,
    <<"#", "Chunk-averaged", "data", "for", "fix", "1">>,
    <<"#", "Time-averaged", "data", "for", "fix", "1", "and", "group", "all">> }

Line1Header == <<"#", "Timestep", "Number-of-chunks", "Total-count">>

Line1s ==
  { Line1Header,
    Line1Header \o <<"extra">>,
    <<"#", "Timestep", "Number-of-chunks", "Total-counts">>,
    <<"#", "Timestep", "Number-of-chunks">> }

\* line 2 as fix ave/chunk writes it: Chunk, OrigID when chunks are compressed,
\* the nd coordinates, Ncount, and nv value columns
Line2(nd, orig, nv) ==
  <<"#", "Chunk">> \o (IF orig THEN <<"OrigID">> ELSE <<>>)
  \o [k \in 1..nd |-> CoordName(k)] \o <<"Ncount">> \o SubSeq(<<"v_x", "v_y">>, 1, nv)

Layouts ==
  { Line2(0, FALSE, 2), Line2(0, TRUE, 1), Line2(1, FALSE, 1), Line2(1, TRUE, 2),
    Line2(2, FALSE, 1), Line2(2, TRUE, 1), Line2(3, FALSE, 2), Line2(3, TRUE, 1) }

\* a line 2 whose data column c_Coord holds the text Coord inside its name
Line2LongName == <<"#", "Chunk", "Coord1", "Ncount", "c_Coord">>

Line2s == Layouts \cup { <<"Chunk", "Ncount", "v_x">>, Line2LongName }

\* the number in column j of body line k
CVal(k, j) == (k - 1) * 7 + j

\* body lines: the number of the line makes its numbers its own
TimestepLine(k, c) == <<Str(CVal(k, 1)), Str(c), Str(CVal(k, 3))>>

ChunkLine(k, header, idx, orig) ==
  [j \in 1..(Len(header) - 1) |->
     IF j = 1 THEN Str(idx)
     ELSE IF j = 2 /\ HasOrigID(header) THEN Str(orig)
     ELSE Str(CVal(k, j))]

BodyLines ==
  LET k == ck_lineno - 2
      header == ck_read[3]
  IN  {TimestepLine(k, c) : c \in -1..MaxChunks}
      \cup {ChunkLine(k, header, idx, orig) :
               idx \in 0..(MaxChunks + 1),
               orig \in IF HasOrigID(header) THEN 1..(MaxChunks + 1) ELSE {0}}
      \cup { <<"1">> }

\* A chunk file drawn in advance: the header, then T timestep blocks of one
\* timestep line and C chunk lines with the indices 1..C in order; with
\* OrigID, chunk idx carries the original id idx + shift.
ChunkPlans ==
  [header : Layouts, C : 0..MaxChunks, T : 1..MaxSteps, shift : 0..1]

RECURSIVE PlanBody(_, _)
PlanBody(p, k) ==
  IF k > p.T * (p.C + 1) THEN <<>>
  ELSE LET idx == (k - 1) % (p.C + 1)
       IN  <<IF idx = 0 THEN TimestepLine(k, p.C)
             ELSE ChunkLine(k, p.header, idx, idx + p.shift)>> \o PlanBody(p, k + 1)

ChunkFile(p) ==
  << <<"#", "Chunk-averaged", "data", "for", "fix", "1", "and", "group", "all">>,
     <<"#", "Timestep", "Number-of-chunks", "Total-count">>,
     p.header >> \o PlanBody(p, 1)

\* The lines the stream can give next: the next line of the file drawn in
\* advance when there is one, any line otherwise; after a line 1 that is not
\* the plain header, one line 2 only.
ChunkStream ==
  IF ck_plan # <<>> THEN (IF ck_f # <<>> THEN {Head(ck_f)} ELSE {})
  ELSE IF ck_lineno = 0 THEN Line0s
  ELSE IF ck_lineno = 1 THEN Line1s
  ELSE IF ck_lineno = 2 THEN (IF ck_read[2] = Line1Header THEN Line2s ELSE {Line2(1, FALSE, 1)})
  ELSE IF ck_lineno < 3 + MaxBody THEN BodyLines
  ELSE {}

\* a chunk file drawn in advance
InitChunkFiles ==
  /\ turn = "chunk"
  /\ calls = <<>>
  /\ f = <<>>
  /\ plan = <<>>
  /\ LogInit
  /\ \E p \in ChunkPlans :
       /\ ~HasOrigID(p.header) => p.shift = 0
       /\ ck_plan = <<p>>
       /\ ck_f = ChunkFile(p)
  /\ ChunkState

vars == <<logvars, chunkvars, callvars>>

NextChunk ==
  \/ \E l \in ChunkStream : Line0(l)
  \/ \E l \in ChunkStream : Line1(l)
  \/ \E l \in ChunkStream : Line2Read(l)
  \/ \E l \in ChunkStream : FirstTimestep(l)
  \/ \E l \in ChunkStream : ChunkData(l)
  \/ \E l \in ChunkStream : LaterTimestep(l)
  \/ ChunkEndOfFile

\* an arbitrary chunk file, one line at a time
SpecChunk == Init /\ [][NextChunk]_vars

\* a chunk file of complete timestep blocks
SpecChunkFiles == InitChunkFiles /\ [][NextChunk]_vars


Next ==
  \/ \E l \in Stream : ErrorLine(l)
  \/ \E l \in Stream : StepHeader(l)
  \/ \E l \in Stream : YamlLine(l)
  \/ \E l \in Stream : YamlEnd(l)
  \/ \E l \in Stream : Banner(l)
  \/ \E l \in Stream : LoopTime(l)
  \/ \E l \in Stream : ThermoData(l)
  \/ \E l \in Stream : OtherLine(l)
  \/ EndOfFile

\* an arbitrary log, one line at a time
Spec == Init /\ [][Next]_vars

\* one call of either constructor on an arbitrary file
NextEither == Next \/ NextChunk

SpecEither == Init /\ [][NextEither]_vars

\* a log made of complete run blocks
SpecBlocks == InitBlocks /\ [][Next]_vars


\* ------------------------------------------------ calls, one after the other
\* the running call has ended: the loop is over, or an exception left it
Ended == IF turn = "log" THEN pc \in {"done", "failed"} ELSE ck_pc \in {"done", "failed"}

\* What the call that ended gave its caller: the exception, or the object
\* with its fields.  refs names the Run dicts of the result list.
LogReturned ==
  IF pc = "failed" THEN [kind |-> "log", exception |-> error]
  ELSE [kind |-> "log", exception |-> "",
        runs |-> [i \in 1..Len(runs) |-> heap[runs[i]]], errors |-> errors, refs |-> runs]

ChunkReturned ==
  IF ck_pc = "failed" THEN [kind |-> "chunk", exception |-> ck_error]
  ELSE [kind |-> "chunk", exception |-> "",
        timesteps |-> timesteps, total_count |-> total_count, chunks |-> chunks]

Returned == IF turn = "log" THEN LogReturned ELSE ChunkReturned

\* a call whose style is not the local of line 46 but what the call before left
LogFileCallKeepsStyle ==
  /\ Ended
  /\ Len(calls) + 1 < MaxCalls
  /\ calls' = Append(calls, Returned)
  /\ turn' = "log"
  /\ f' = PlanLines(plan, 1)
  /\ line' = <<>>
  /\ lineno' = 0
  /\ style' = style
  /\ yamllog' = <<>>
  /\ runs' = <<>>
  /\ errors' = <<>>
  /\ in_thermo' = FALSE
  /\ in_data_section' = FALSE
  /\ keys' = <<>>
  /\ current_run' = 0
  /\ pc' = "run"
  /\ error' = ""
  /\ stream' = "open"
  /\ UNCHANGED <<plan, heap, chunkvars>>

\* LogFile(filename) once more on the same log, lines 43-52: the locals and
\* the two lists are new, the file is opened again; the dicts of the objects
\* made before stay where they are.
LogFileCall ==
  /\ Ended
  /\ Len(calls) + 1 < MaxCalls
  /\ calls' = Append(calls, Returned)
  /\ turn' = "log"
  /\ f' = PlanLines(plan, 1)
  /\ line' = <<>>
  /\ lineno' = 0
  /\ style' = STYLE_DEFAULT
  /\ yamllog' = <<>>
  /\ runs' = <<>>
  /\ errors' = <<>>
  /\ in_thermo' = FALSE
  /\ in_data_section' = FALSE
  /\ keys' = <<>>
  /\ current_run' = 0
  /\ pc' = "run"
  /\ error' = ""
  /\ stream' = "open"
  /\ UNCHANGED <<plan, heap, chunkvars>>

\* AvgChunkFile(filename) once more on the same chunk file, lines 126-133
AvgChunkFileCall ==
  /\ Ended
  /\ Len(calls) + 1 < MaxCalls
  /\ calls' = Append(calls, Returned)
  /\ turn' = "chunk"
  /\ ck_f' = ChunkFile(ck_plan[1])
  /\ ck_read' = <<>>
  /\ ck_pc' = "run"
  /\ ck_error' = ""
  /\ ck_stream' = "open"
  /\ timestep' = -1
  /\ chunks_read' = 0
  /\ num_chunks' = 0
  /\ timesteps' = <<>>
  /\ total_count' = <<>>
  /\ chunks' = <<>>
  /\ fix_name' = ""
  /\ group_name' = ""
  /\ columns' = <<>>
  /\ ndim' = 0
  /\ compress' = FALSE
  /\ coord_start' = -1
  /\ coord_end' = -1
  /\ ncount_start' = 0
  /\ data_start' = 0
  /\ UNCHANGED <<ck_plan, logvars>>

\* the last call ends and its result is kept
LastReturn ==
  /\ Ended
  /\ Len(calls) + 1 = MaxCalls
  /\ calls' = Append(calls, Returned)
  /\ UNCHANGED <<turn, logvars, chunkvars>>

\* the logs and chunk files parsed more than once: one or two segments with
\* MaxRows rows each, and MaxSteps blocks of MaxChunks chunks
TwicePlans ==
  UNION {[1..n -> {sg \in Segments : sg.kind = "error" \/ sg.n = MaxRows}] : n \in 1..2}

TwiceChunkPlans ==
  {p \in ChunkPlans : p.C = MaxChunks /\ p.T = MaxSteps /\ (~HasOrigID(p.header) => p.shift = 0)}

InitTwice ==
  /\ turn \in {"log", "chunk"}
  /\ calls = <<>>
  /\ plan \in TwicePlans
  /\ f = PlanLines(plan, 1)
  /\ LogInit
  /\ \E p \in TwiceChunkPlans :
       /\ ck_plan = <<p>>
       /\ ck_f = ChunkFile(p)
  /\ ChunkState

NextTwice ==
  \/ Next
  \/ NextChunk
  \/ LogFileCall
  \/ AvgChunkFileCall
  \/ LastReturn

\* up to MaxCalls calls of the two constructors, in any order, on one log and
\* one chunk file
SpecTwice == InitTwice /\ [][NextTwice]_vars

\* ================================================================ claims
\* the lines of the first i segments of a log drawn in advance
RECURSIVE SegEnd(_, _)
SegEnd(p, i) == IF i = 0 THEN 0 ELSE SegEnd(p, i - 1) + Len(BlockLines(p[i], i))

\* the segment that holds line n of the log
SegOf(p, n) == CHOOSE i \in 1..Len(p) : SegEnd(p, i - 1) < n /\ n <= SegEnd(p, i)

\* the run blocks among the first i segments, in order
RECURSIVE BlocksUpTo(_, _)
BlocksUpTo(p, i) ==
  IF i = 0 THEN <<>>
  ELSE BlocksUpTo(p, i - 1) \o (IF p[i].kind = "error" THEN <<>> ELSE <<p[i]>>)

\* the Run a block stands for: its column names, and column j holding the
\* j-th number of every row in row order
ExpectedRun(b, bi) ==
  [keys |-> BlockKeys(b),
   col |-> [j \in 1..Len(BlockKeys(b)) |-> [r \in 1..b.n |-> Val(bi, r, j)]]]

LastRun == heap[runs[Len(runs)]]

\* C1: for a log that is a sequence of complete run blocks of any mix of the
\* three styles, runs holds exactly one Run per block, in the order of the
\* blocks: after the last line of segment i, runs has as many Runs as there
\* are blocks among the first i segments, the j-th with the columns of the
\* j-th block.
C1_OneRunPerBlock ==
  plan # <<>> =>
    \A i \in 1..Len(plan) :
      lineno = SegEnd(plan, i) =>
        /\ Len(runs) = Len(BlocksUpTo(plan, i))
        /\ \A j \in 1..Len(runs) : heap[runs[j]].keys = BlockKeys(BlocksUpTo(plan, i)[j])

\* C2: whatever came before it, a default block (header with n names, k rows
\* of n tokens, Loop time line) appends a Run with the header's n names as
\* keys, each column of length k, column j holding the j-th token of every
\* row in row order.
C2_DefaultBlockRun ==
  plan # <<>> =>
    \A i \in 1..Len(plan) :
      (plan[i].kind = "default" /\ lineno = SegEnd(plan, i)) =>
        /\ pc # "failed"
        /\ runs # <<>>
        /\ LastRun = ExpectedRun(plan[i], i)

\* C3: while a YAML block is read, its terminator appends exactly one Run,
\* whose columns are the block's keywords in order and whose column j holds
\* the j-th value of every data row of this block in row order, and empties
\* the buffer; no other line of the block, the Loop time line included,
\* changes the result list.
C3_YamlBlock ==
  [][ (plan # <<>> /\ lineno' = lineno + 1 /\ plan[SegOf(plan, lineno')].kind = "yaml") =>
        /\ pc' = "run"
        /\ IF IsYamlEnd(line')
           THEN /\ Len(runs') = Len(runs) + 1
                /\ SubSeq(runs', 1, Len(runs)) = runs
                /\ \A j \in 1..Len(runs) : heap'[runs[j]] = heap[runs[j]]
                /\ heap'[runs'[Len(runs')]] =
                     ExpectedRun(plan[SegOf(plan, lineno')], SegOf(plan, lineno'))
                /\ yamllog' = <<>>
           ELSE runs' = runs ]_vars

C3_Witness ==
  /\ pc = "done"
  /\ Len(plan) = 3
  /\ \A i \in 1..3 : plan[i] = [kind |-> "yaml", n |-> 2]
  /\ Len(runs) = 3
  /\ heap[runs[2]] = ExpectedRun(plan[2], 2)

\* C4: a multi block read while no thermo block is open, with N banners each
\* followed by key = value lines for keys other than Step and CPU, appends at
\* its Loop time line a Run whose Step and CPU columns hold the N banners'
\* step numbers and CPU times in banner order.
C4_MultiBlockRun ==
  plan # <<>> =>
    \A i \in 1..Len(plan) :
      (plan[i].kind = "multi" /\ lineno = SegEnd(plan, i)) =>
        /\ pc # "failed"
        /\ runs # <<>>
        /\ HasKey(LastRun, "Step") /\ HasKey(LastRun, "CPU")
        /\ Column(LastRun, "Step") = [r \in 1..plan[i].n |-> Val(i, r, 1)]
        /\ Column(LastRun, "CPU") = [r \in 1..plan[i].n |-> Val(i, r, 2)]

C4_Witness ==
  /\ pc = "done"
  /\ Len(plan) = 2
  /\ plan[1].kind = "yaml"
  /\ plan[2] = [kind |-> "multi", n |-> 2]
  /\ Len(runs) = 2
  /\ Len(Column(LastRun, "Step")) = 2

\* C5: in every parser state a line containing ERROR or exited on signal is
\* appended verbatim to errors, after the lines already there, and changes
\* nothing else: not the style, the two flags, the current Run, the YAML
\* buffer or the result list.
C5_ErrorLineFrame ==
  [][ (lineno' = lineno + 1 /\ IsErrorLine(line')) =>
        /\ errors' = Append(errors, line')
        /\ pc' = "run"
        /\ UNCHANGED <<style, in_thermo, in_data_section, keys, current_run, heap,
                       yamllog, runs>> ]_vars

C5_Witness ==
  /\ line = <<"Step", "ERROR">>
  /\ errors = <<ErrorText, line>>
  /\ in_thermo /\ ~in_data_section
  /\ style = STYLE_MULTI

\* the plan of the chunk file drawn in advance
ChunkPlan == ck_plan[1]

\* body line k of a file of complete blocks is a chunk line
IsChunkLineNo(p, k) == k >= 1 /\ (k - 1) % (p.C + 1) # 0

LastRead == ck_read[Len(ck_read)]

C7_ChangedChunkCount ==
  [][ (/\ ck_pc = "run" /\ ck_lineno >= 3 /\ timestep # -1 /\ chunks_read >= num_chunks
       /\ Len(ck_read') = Len(ck_read) + 1
       /\ Len(ck_read'[Len(ck_read')]) >= 2
       /\ IsNum(ck_read'[Len(ck_read')][2])
       /\ FloatOf(ck_read'[Len(ck_read')][2]) # num_chunks) =>
        /\ ck_pc' = "failed"
        /\ ck_error' = ChunkCountError
        /\ timesteps' = timesteps
        /\ total_count' = total_count ]_vars

C7_Witness ==
  /\ ck_error = ChunkCountError
  /\ num_chunks = 1
  /\ chunks_read = 1
  /\ Len(timesteps) = 1 /\ Len(total_count) = 1
  /\ Len(ck_read) = 6
  /\ LastRead = TimestepLine(3, 2)

\* C8: with the OrigID column, every chunk line's samples go to the record
\* whose id is the line's second token, for any positive original ids distinct
\* within a block, also ids above the declared number of chunks, and the
\* parse does not fail.
C8_OrigIdAddressing ==
  (ck_plan # <<>> /\ HasOrigID(ChunkPlan.header)) =>
    /\ ck_pc # "failed"
    /\ (ck_pc = "run" /\ IsChunkLineNo(ChunkPlan, ck_lineno - 3)) =>
         \E i \in 1..Len(chunks) :
           /\ chunks[i].id = FloatOf(Part(LastRead, 1))
           /\ chunks[i].ncount # <<>>
           /\ chunks[i].ncount[Len(chunks[i].ncount)] =
                FloatOf(Part(LastRead, IndexOf(Tail(ChunkPlan.header), "Ncount")))

\* C9: for every accepted line 2, the count appended for a chunk line is the
\* token at the place of Ncount among the column names, and the extra named
\* sequences of the record are exactly the columns after Ncount, each
\* receiving the token at its own place.
C9_ColumnLayout ==
  (ck_plan # <<>> /\ ChunkPlan.shift = 0 /\ ck_pc = "run"
   /\ IsChunkLineNo(ChunkPlan, ck_lineno - 3)) =>
    LET cols == Tail(ChunkPlan.header)
        nc == IndexOf(cols, "Ncount")
        rec == chunks[FloatOf(Part(LastRead, 0))]
    IN  /\ rec.ncount # <<>>
        /\ rec.ncount[Len(rec.ncount)] = FloatOf(Part(LastRead, nc))
        /\ rec.data.keys = SubSeq(cols, nc + 2, Len(cols))
        /\ \A j \in 1..Len(rec.data.keys) :
             /\ rec.data.col[j] # <<>>
             /\ rec.data.col[j][Len(rec.data.col[j])] = FloatOf(Part(LastRead, nc + j))

\* C10: whenever a chunk line is expected (chunks_read < num_chunks), a line
\* whose leading index is not chunks_read + 1 fails the parse, with or without
\* OrigID, and a failed parse never ends with a result.
C10_OutOfOrderChunk ==
  [][ /\ (/\ ck_pc = "run" /\ ck_lineno >= 3 /\ timestep # -1 /\ chunks_read < num_chunks
          /\ Len(ck_read') = Len(ck_read) + 1
          /\ \/ ck_read'[Len(ck_read')] = <<>>
             \/ ~IsNum(ck_read'[Len(ck_read')][1])
             \/ FloatOf(ck_read'[Len(ck_read')][1]) # chunks_read + 1) => ck_pc' = "failed"
      /\ ck_pc = "failed" => ck_pc' = "failed" ]_vars

C10_Witness ==
  /\ ck_error = "AssertionError"
  /\ compress
  /\ Len(timesteps) = 2
  /\ chunks_read = 0
  /\ FloatOf(Part(LastRead, 0)) = 0

\* the test the code makes of header line i (0, 1 or 2)
HeaderShape(i, l) ==
  IF i = 0 THEN StartsWith(l, <<"#", "Chunk-averaged", "data", "for", "fix">>)
  ELSE IF i = 1 THEN StartsWith(l, <<"#", "Timestep", "Number-of-chunks", "Total-count">>)
  ELSE StartsWith(l, <<"#">>)

\* C11: a parse ends with a result only when the stream has the three header
\* lines and each has its shape; when one of the first three lines has not,
\* the parse fails at the first such line with the malformed-header error,
\* before any timestep or chunk is accumulated.
C11_HeaderRequired ==
  /\ ck_pc = "done" =>
       /\ Len(ck_read) >= 3
       /\ \A i \in 1..3 : HeaderShape(i - 1, ck_read[i])
  /\ \A i \in 1..Min(3, Len(ck_read)) :
       (~HeaderShape(i - 1, ck_read[i]) /\ \A j \in 1..(i - 1) : HeaderShape(j - 1, ck_read[j])) =>
         /\ ck_pc = "failed"
         /\ ck_error = HeaderError
         /\ Len(ck_read) = i
         /\ timesteps = <<>> /\ total_count = <<>> /\ chunks = <<>>

\* C12: in both parsers the file is open while the parse runs and closed in
\* every terminal state: after the loop ended and after every exception.
C12_StreamClosed ==
  /\ turn = "log" =>
       /\ pc = "run" => stream = "open"
       /\ pc \in {"done", "failed"} => stream = "closed"
  /\ turn = "chunk" =>
       /\ ck_pc = "run" => ck_stream = "open"
       /\ ck_pc \in {"done", "failed"} => ck_stream = "closed"

C12_Witness ==
  /\ turn = "log"
  /\ pc = "failed"
  /\ error = "ValueError"
  /\ runs # <<>>
  /\ stream = "closed"

\* C13: the calls that parsed the same lines gave equal results: equal runs
\* and errors, or equal timesteps, total_count and chunks, or the same
\* exception, whatever calls ran in between; and no later call changed a Run
\* of an object an earlier call gave.
C13_SameResult ==
  /\ \A i \in 1..Len(calls) : \A j \in 1..Len(calls) :
       calls[i].kind = calls[j].kind =>
         /\ calls[i].exception = calls[j].exception
         /\ calls[i].exception = "" =>
              IF calls[i].kind = "log"
              THEN calls[i].runs = calls[j].runs /\ calls[i].errors = calls[j].errors
              ELSE /\ calls[i].timesteps = calls[j].timesteps
                   /\ calls[i].total_count = calls[j].total_count
                   /\ calls[i].chunks = calls[j].chunks
  /\ \A i \in 1..Len(calls) :
       (calls[i].kind = "log" /\ calls[i].exception = "") =>
         \A k \in 1..Len(calls[i].refs) : heap[calls[i].refs[k]] = calls[i].runs[k]

C13_Witness ==
  /\ Len(calls) = 3
  /\ calls[1].kind = "log" /\ calls[2].kind = "chunk" /\ calls[3].kind = "log"
  /\ calls[2].exception = "IndexError"
  /\ calls[1].exception = ""
  /\ Len(calls[1].runs) = 2
  /\ calls[1].errors = <<>>
  /\ calls[3].refs # calls[1].refs

\* C14 as stated: in the data section of a multi block, a line of the data
\* branch without any name = value pair ends the data section, and a line
\* with such a pair keeps it open.
C14_NoPairEndsSection ==
  [][ (/\ lineno' = lineno + 1 /\ LineClass(line') = "data"
       /\ style = STYLE_MULTI /\ in_thermo /\ in_data_section /\ pc' = "run") =>
        in_data_section' = (KvPairs(line') # <<>>) ]_vars

\* C14: in the data section of a multi block, a line of the data branch
\* without the character = ends the data section and changes no Run; a line
\* with = keeps it open, with or without a name = value pair, and only its
\* pairs are appended; out of the data section a line of the data branch
\* changes nothing, until a banner or a Step header opens it again.
C14_NoEqualsEndsSection ==
  [][ (/\ lineno' = lineno + 1 /\ LineClass(line') = "data"
       /\ style = STYLE_MULTI /\ in_thermo /\ pc' = "run") =>
        IF ~in_data_section
        THEN (~in_data_section' /\ heap' = heap)
        ELSE IF "=" \in Range(line')
             THEN (in_data_section' /\ (KvPairs(line') = <<>> => heap' = heap))
             ELSE (~in_data_section' /\ heap' = heap) ]_vars

C14_Witness ==
  /\ line = <<"Temp", "=", "Press">>
  /\ style = STYLE_MULTI
  /\ in_thermo /\ in_data_section
  /\ pc = "run"
  /\ current_run # 0
  /\ Len(heap[current_run].keys) = 3

\* C15: a banner read while no thermo block is open starts a new Run whose
\* only columns are Step and CPU, each holding that banner's value, and
\* changes no Run of the result list; a banner read while a thermo block is
\* open creates no Run and appends its two numbers to the Step and CPU
\* columns of the current Run.
C15_BannerRun ==
  [][ (lineno' = lineno + 1 /\ LineClass(line') = "banner" /\ BannerFields(line').err = "") =>
        /\ pc' = "run"
        /\ IF ~in_thermo
           THEN (/\ current_run' \notin Range(runs)
                 /\ heap'[current_run'] =
                      [keys |-> <<"Step", "CPU">>,
                       col |-> << <<BannerFields(line').step>>, <<BannerFields(line').cpu>> >>]
                 /\ \A id \in Range(runs) : heap'[id] = heap[id])
           ELSE (/\ current_run' = current_run
                 /\ Len(heap') = Len(heap)
                 /\ Column(heap'[current_run], "Step") =
                      Append(Column(heap[current_run], "Step"), BannerFields(line').step)
                 /\ Column(heap'[current_run], "CPU") =
                      Append(Column(heap[current_run], "CPU"), BannerFields(line').cpu)) ]_vars

\* C16: no Run occurs more than once in the result list; a Loop time line
\* read when no header, banner or YAML line has started a run since the last
\* Loop time line, or since the start of the log, appends nothing and does
\* not fail.
C16_NoRunTwice ==
  /\ \A i \in 1..Len(runs) : \A j \in 1..Len(runs) : runs[i] = runs[j] => i = j
  /\ (pc = "failed" /\ IsLoopTime(line) /\ ~IsErrorLine(line)) => error # "UnboundLocalError"

\* C17: without the OrigID column, in every state after the first timestep
\* line, with T timesteps read, C the established chunk count and r =
\* chunks_read: 0 <= r <= C, timesteps and total_count have length T, there
\* are C chunk records, and the record at place i has T count samples when
\* i <= r and T - 1 otherwise.
C17_BlockInvariant ==
  (ck_pc # "failed" /\ timestep # -1 /\ ~compress) =>
    /\ 0 <= chunks_read /\ chunks_read <= num_chunks
    /\ Len(timesteps) = Len(total_count)
    /\ Len(chunks) = num_chunks
    /\ \A i \in 1..Len(chunks) :
         Len(chunks[i].ncount) = IF i <= chunks_read THEN Len(timesteps) ELSE Len(timesteps) - 1

\* C18 as stated: line 1 is accepted only when it is the fixed header string;
\* any other line 1, one with text after the string included, fails with the
\* malformed-header error.
C18_Line1Equal ==
  Len(ck_read) >= 2 =>
    IF ck_read[2] = <<"#", "Timestep", "Number-of-chunks", "Total-count">>
    THEN ~(ck_pc = "failed" /\ Len(ck_read) = 2)
    ELSE (ck_pc = "failed" /\ ck_error = HeaderError /\ Len(ck_read) = 2)

\* C18: line 1 is accepted when it begins with the fixed header string,
\* whatever follows the string on the line; a line 1 that does not begin
\* with it fails with the malformed-header error.
C18_Line1Prefix ==
  Len(ck_read) >= 2 =>
    IF /\ Len(ck_read[2]) >= 4
       /\ SubSeq(ck_read[2], 1, 3) = <<"#", "Timestep", "Number-of-chunks">>
       /\ ck_read[2][4] \in {"Total-count", "Total-counts"}
    THEN ~(ck_pc = "failed" /\ Len(ck_read) = 2)
    ELSE (ck_pc = "failed" /\ ck_error = HeaderError /\ Len(ck_read) = 2)

C18_Witness ==
  /\ Len(ck_read) >= 5
  /\ ck_read[2] = <<"#", "Timestep", "Number-of-chunks", "Total-count", "extra">>
  /\ ck_pc = "done"
  /\ timesteps # <<>>
  /\ Len(chunks) = 1
  /\ chunks[1].ncount # <<>>

\* tokens of the lines read that hold a letter other than e and E
LetterTokens == {"WARNING:", "Temp", "Press"}

CoordColumns(l) == {i \in 1..Len(l) : \E k \in 1..9 : l[i] = CoordName(k)}

\* C20: for every line 2 that begins with '#', ndim is the number of tokens of
\* the line that are coordinate column names Coord<k>, a data column whose name
\* only holds the text Coord not counted: the line is read without failure,
\* and every chunk then holds one ndim-tuple per sample when ndim > 0 and no
\* coordinate when ndim = 0.
C20_NdimCountsCoordColumns ==
  (ck_lineno >= 3 /\ ck_read[3] # <<>> /\ ck_read[3][1] = "#") =>
     /\ ~(ck_lineno = 3 /\ ck_pc = "failed")
     /\ ndim = Cardinality(CoordColumns(ck_read[3]))
     /\ \A c \in 1..Len(chunks) :
          /\ Len(chunks[c].coord) = (IF ndim > 0 THEN Len(chunks[c].ncount) ELSE 0)
          /\ \A s \in 1..Len(chunks[c].coord) : Len(chunks[c].coord[s]) = ndim

====
